---------------------------- MODULE Spec2Model ----------------------------
(***************************************************************************)
(* A model of mktestdocs (src/mktestdocs/__main__.py): the fence header    *)
(* sub-parser, the fenced-block grammar, the executor registry as it is    *)
(* built while the module loads, and the check entry points.               *)
(*                                                                         *)
(* Text is a sequence of one-character strings.  The regular expressions   *)
(* of the source are written as syntax trees; a match is the first of the  *)
(* ways a backtracking matcher would try, in the order of Python's re.     *)
(***************************************************************************)
EXTENDS Integers, Sequences, FiniteSets, TLC

VARIABLES
    mode,            \* which part of the program the behaviour exercises
    pc,              \* position of the running function
    header,          \* attrs_from_str: its argument
    raw,             \* attrs_from_str: the unparsed rest of the header
    attrs,           \* attrs_from_str: the ordered mapping built so far
    toks,            \* history: the tokens attrs_from_str accepted, in order
    source,          \* grab_fences: the document
    pos,             \* grab_fences: where findall resumes scanning (1-based)
    fences,          \* grab_fences: the Fence records built so far
    spans,           \* history: where each of them was matched in source
    executors,       \* the global _executors
    default_globals, \* the default value of exec_python_fence's globals
    files,           \* the files written so far: name -> contents
    loadpc,          \* the next top-level statement of the module to run
    nregs,           \* register_executor calls made by the user
    call,            \* the running or last check call
    log,             \* history: the executor invocations of that call
    result           \* what the caller of that call observes

attrsVars == <<header, raw, attrs, toks>>
fenceVars == <<source, pos, fences, spans>>
driverVars == <<executors, default_globals, files, loadpc, nregs,
                call, log, result>>
vars == <<mode, pc, attrsVars, fenceVars, driverVars>>

----------------------------------------------------------------------------
(* Characters *)

Lower == {"a","b","c","d","e","f","g","h","i","j","k","l","m",
          "n","o","p","q","r","s","t","u","v","w","x","y","z"}
Upper == {"A","B","C","D","E","F","G","H","I","J","K","L","M",
          "N","O","P","Q","R","S","T","U","V","W","X","Y","Z"}
Digit == {"0","1","2","3","4","5","6","7","8","9"}
Letter == Lower \cup Upper
\* \w
Word == Letter \cup Digit \cup {"_"}
\* [a-zA-Z0-9_\-]
IdentTail == Word \cup {"-"}
\* [\w#.+-]
LangChar == Word \cup {"#", ".", "+", "-"}
Blank == {" ", "\t"}
\* the backtick character (a string literal of this notation cannot hold it)
Tick == "BACKTICK"
\* what str.strip() and textwrap treat as whitespace
White == {" ", "\t", "\n"}

\* Python's None, and a present string value
None == [some |-> FALSE, v |-> <<>>]
Some(x) == [some |-> TRUE, v |-> x]

\* s[i:] for a 0-based i
DropFirst(s, i) == SubSeq(s, i + 1, Len(s))

----------------------------------------------------------------------------
(* Regular expression syntax trees *)

Chr(set) == [op |-> "chr", set |-> set]
NotChr(set) == [op |-> "notchr", set |-> set]
AnyChr == [op |-> "any"]
Cat(list) == [op |-> "cat", list |-> list]
Alt(a, b) == [op |-> "alt", a |-> a, b |-> b]
Star(a) == [op |-> "star", a |-> a]
LazyStar(a) == [op |-> "lazystar", a |-> a]
Empty == Cat(<<>>)
Opt(a) == Alt(a, Empty)
Group(k, a) == [op |-> "group", k |-> k, a |-> a]
BackRef(k) == [op |-> "backref", k |-> k]
Bol == [op |-> "bol"]
Eol == [op |-> "eol"]
WordBoundary == [op |-> "wordb"]
Behind(set) == [op |-> "behind", set |-> set]
GroupNames == {"fence", "attrs", "lang", "options", "quot", "code", "raw",
               "class", "id", "key", "value"}
\* a group that did not take part: NoSpan
NoSpan == [set |-> FALSE, from |-> 0, to |-> 0]
NoCaps == [k \in GroupNames |-> NoSpan]
NoMatch == [ok |-> FALSE, from |-> 0, end |-> 0, caps |-> NoCaps]

IsWordAt(s, i) == i >= 1 /\ i <= Len(s) /\ s[i] \in Word

\* Does text t occur in s at position p?
OccursAt(s, p, t) ==
    /\ p + Len(t) - 1 <= Len(s)
    /\ \A i \in 1..Len(t) : s[p + i - 1] = t[i]

SetMax(S) == CHOOSE x \in S : \A y \in S : y <= x
SetMin(S) == CHOOSE x \in S : \A y \in S : x <= y

\* a node that matches exactly one character
IsOneChr(n) == n.op \in {"chr", "notchr", "any"}
Takes(n, c) ==
    CASE n.op = "chr" -> c \in n.set
      [] n.op = "notchr" -> c \notin n.set
      [] n.op = "any" -> TRUE
\* the position after the longest run from p of characters node n takes
RunEnd(n, s, p) ==
    SetMin({q \in p..(Len(s) + 1) : q = Len(s) + 1 \/ ~Takes(n, s[q])})

RECURSIVE Flatten(_, _, _)
\* the concatenation of the sequences ss[lo], ..., ss[hi]
Flatten(ss, lo, hi) ==
    IF lo > hi THEN <<>>
    ELSE IF lo = hi THEN ss[lo]
    ELSE LET mid == (lo + hi) \div 2
         IN Flatten(ss, lo, mid) \o Flatten(ss, mid + 1, hi)

At(p, caps) == [end |-> p, caps |-> caps]
OneIf(cond, p, caps) == IF cond THEN <<At(p, caps)>> ELSE <<>>

(* Every way node n matches s from position p (1-based) under the captures *)
(* caps, as a sequence of (end, captures) in the order in which a          *)
(* backtracking matcher tries them: the first alternative before the       *)
(* second, a greedy repetition longest first, a lazy one shortest first.   *)
RECURSIVE Ends(_, _, _, _)
RECURSIVE SeqEnds(_, _, _)
\* Continue every result of cur, in order, with the nodes of list
SeqEnds(list, s, cur) ==
    IF list = <<>> THEN cur
    ELSE LET next == [i \in 1..Len(cur) |->
                         Ends(Head(list), s, cur[i].end, cur[i].caps)]
         IN SeqEnds(Tail(list), s, Flatten(next, 1, Len(next)))

Ends(n, s, p, caps) ==
    CASE IsOneChr(n) -> OneIf(p <= Len(s) /\ Takes(n, s[p]), p + 1, caps)
      [] n.op = "cat" -> SeqEnds(n.list, s, <<At(p, caps)>>)
      [] n.op = "alt" -> Ends(n.a, s, p, caps) \o Ends(n.b, s, p, caps)
      [] n.op = "star" /\ IsOneChr(n.a) ->
            LET e == RunEnd(n.a, s, p)
            IN [i \in 1..(e - p + 1) |-> At(e - i + 1, caps)]
      [] n.op = "lazystar" /\ IsOneChr(n.a) ->
            LET e == RunEnd(n.a, s, p)
            IN [i \in 1..(e - p + 1) |-> At(p + i - 1, caps)]
      [] n.op = "star" ->
            \* an iteration that consumed nothing ends the repetition there
            LET once == Ends(n.a, s, p, caps)
                more == [i \in 1..Len(once) |->
                            IF once[i].end > p
                            THEN Ends(n, s, once[i].end, once[i].caps)
                            ELSE <<once[i]>>]
            IN Flatten(more, 1, Len(more)) \o <<At(p, caps)>>
      [] n.op = "group" ->
            LET in == Ends(n.a, s, p, caps)
            IN [i \in 1..Len(in) |->
                   At(in[i].end,
                      [in[i].caps EXCEPT ![n.k] =
                          [set |-> TRUE, from |-> p, to |-> in[i].end]])]
      [] n.op = "backref" ->
            LET g == caps[n.k]
                t == SubSeq(s, g.from, g.to - 1)
            IN OneIf(g.set /\ OccursAt(s, p, t), p + Len(t), caps)
      [] n.op = "bol" -> OneIf(p = 1 \/ s[p - 1] = "\n", p, caps)
      [] n.op = "eol" -> OneIf(p = Len(s) + 1 \/ s[p] = "\n", p, caps)
      [] n.op = "wordb" -> OneIf(IsWordAt(s, p - 1) # IsWordAt(s, p), p, caps)
      [] n.op = "behind" -> OneIf(p > 1 /\ s[p - 1] \in n.set, p, caps)

\* The match a backtracking matcher reports from position p: the first one
MatchAt(re, s, p) ==
    CHOOSE m \in {IF all = <<>> THEN NoMatch
                  ELSE [ok |-> TRUE, from |-> p, end |-> all[1].end,
                        caps |-> all[1].caps]
                  : all \in {Ends(re, s, p, NoCaps)}} : TRUE

\* pattern.match(s): anchored at the start of s
ReMatch(re, s) == MatchAt(re, s, 1)

\* match.groupdict()[k], None when the group did not take part
GroupOf(m, s, k) ==
    IF m.caps[k].set THEN Some(SubSeq(s, m.caps[k].from, m.caps[k].to - 1))
    ELSE None

\* the group as re.findall reports it: "" when it did not take part
GroupText(m, s, k) == GroupOf(m, s, k).v

----------------------------------------------------------------------------
(* The header token grammars *)

Ident == Cat(<<Chr(Letter), Star(Chr(IdentTail))>>)

CLASS_RE ==
    Cat(<<Star(Chr(Blank)), Chr({"."}), Group("class", Ident), Star(Chr(Blank))>>)

ID_RE ==
    Cat(<<Star(Chr(Blank)), Chr({"#"}), Group("id", Ident), Star(Chr(Blank))>>)

QuotedValue(val) ==
    Cat(<<Chr({"="}), Group("quot", Chr({"\"", "'"})), val, BackRef("quot")>>)

KeyName == Cat(<<WordBoundary, Chr(Letter), Star(Chr(Word))>>)

KEY_VAL_RE ==
    Cat(<<Star(Chr(Blank)),
          Group("key", KeyName),
          Opt(QuotedValue(Group("value", LazyStar(AnyChr)))),
          Star(Chr(Blank))>>)

Attr(value, type) == [value |-> value, type |-> type]

\* a mapping in which a key that is set again moves to the end
OrdSetMoveLast(d, k, val) ==
    Append(SelectSeq(d, LAMBDA e : e.name # k), [name |-> k, val |-> val])

\* OrderedDict.__setitem__: a new key goes last, an old key keeps its place
OrdSet(d, k, val) ==
    IF \E i \in 1..Len(d) : d[i].name = k
    THEN [i \in 1..Len(d) |->
            IF d[i].name = k THEN [name |-> k, val |-> val] ELSE d[i]]
    ELSE Append(d, [name |-> k, val |-> val])

\* One iteration of the loop of attrs_from_str on a non-empty rest r
AttrsToken(r) ==
    LET c == ReMatch(CLASS_RE, r)
        i == ReMatch(ID_RE, r)
        k == ReMatch(KEY_VAL_RE, r)
    IN IF c.ok THEN [ok |-> TRUE, name |-> GroupText(c, r, "class"),
                     attr |-> Attr(None, "class"), end |-> c.end - 1]
       ELSE IF i.ok THEN [ok |-> TRUE, name |-> GroupText(i, r, "id"),
                          attr |-> Attr(None, "id"), end |-> i.end - 1]
       ELSE IF k.ok THEN [ok |-> TRUE, name |-> GroupText(k, r, "key"),
                          attr |-> Attr(GroupOf(k, r, "value"), "keyval"),
                          end |-> k.end - 1]
       ELSE [ok |-> FALSE, name |-> <<>>, attr |-> Attr(None, "none"), end |-> 0]

RECURSIVE AttrsLoop(_, _)
AttrsLoop(r, d) ==
    IF r = <<>> THEN d
    ELSE LET t == AttrsToken(r)
         IN IF t.ok THEN AttrsLoop(DropFirst(r, t.end), OrdSet(d, t.name, t.attr))
            ELSE d

attrs_from_str(r) == AttrsLoop(r, <<>>)


\* One iteration of the loop of options_from_str on a non-empty rest r
OptionsToken(r) ==
    LET k == ReMatch(KEY_VAL_RE, r)
    IN IF k.ok THEN [ok |-> TRUE, name |-> GroupText(k, r, "key"),
                     val |-> GroupOf(k, r, "value"), end |-> k.end - 1]
       ELSE [ok |-> FALSE, name |-> <<>>, val |-> None, end |-> 0]

RECURSIVE OptionsLoop(_, _)
OptionsLoop(r, d) ==
    IF r = <<>> THEN d
    ELSE LET t == OptionsToken(r)
         IN IF t.ok THEN OptionsLoop(DropFirst(r, t.end), OrdSet(d, t.name, t.val))
            ELSE d

options_from_str(r) == OptionsLoop(r, <<>>)

\* dict.get(k, default) on an ordered mapping
Has(d, k) == \E i \in 1..Len(d) : d[i].name = k
Get(d, k) == d[CHOOSE i \in 1..Len(d) : d[i].name = k].val

----------------------------------------------------------------------------
(* textwrap.dedent *)

RECURSIVE SplitOn(_, _)
\* s.split(c): the pieces between the occurrences of character c
SplitOn(s, c) ==
    IF \A i \in 1..Len(s) : s[i] # c THEN <<s>>
    ELSE LET i == CHOOSE j \in 1..Len(s) :
                      s[j] = c /\ \A h \in 1..(j - 1) : s[h] # c
         IN <<SubSeq(s, 1, i - 1)>> \o SplitOn(SubSeq(s, i + 1, Len(s)), c)

RECURSIVE JoinWith(_, _)
\* c.join(parts)
JoinWith(parts, c) ==
    IF parts = <<>> THEN <<>>
    ELSE IF Len(parts) = 1 THEN parts[1]
    ELSE parts[1] \o c \o JoinWith(Tail(parts), c)

AllBlank(line) == \A i \in 1..Len(line) : line[i] \in Blank

\* the leading run of spaces and tabs of a line
Indent(line) ==
    LET n == CHOOSE k \in 0..Len(line) :
                 /\ \A i \in 1..k : line[i] \in Blank
                 /\ (k < Len(line) => line[k + 1] \notin Blank)
    IN SubSeq(line, 1, n)

IsPrefix(a, b) == Len(a) <= Len(b) /\ SubSeq(b, 1, Len(a)) = a

\* the longest common prefix of a and b
CommonPrefix(a, b) ==
    LET n == CHOOSE k \in 0..Len(a) :
                 /\ k <= Len(b)
                 /\ \A i \in 1..k : a[i] = b[i]
                 /\ (k < Len(a) /\ k < Len(b) => a[k + 1] # b[k + 1])
    IN SubSeq(a, 1, n)

RECURSIVE Margin(_, _, _)
\* the margin loop of dedent over the indents of the non-blank lines
Margin(lines, i, m) ==
    IF i > Len(lines) THEN m
    ELSE IF AllBlank(lines[i]) THEN Margin(lines, i + 1, m)
    ELSE LET ind == Indent(lines[i])
         IN Margin(lines, i + 1,
                   IF ~m.some THEN Some(ind)
                   ELSE IF IsPrefix(m.v, ind) THEN m
                   ELSE IF IsPrefix(ind, m.v) THEN Some(ind)
                   ELSE Some(CommonPrefix(m.v, ind)))

dedent(text) ==
    LET lines0 == SplitOn(text, "\n")
        \* whitespace-only lines are emptied first
        lines == [i \in 1..Len(lines0) |->
                     IF AllBlank(lines0[i]) THEN <<>> ELSE lines0[i]]
        m == Margin(lines, 1, None).v
        cut == [i \in 1..Len(lines) |->
                   IF m # <<>> /\ IsPrefix(m, lines[i])
                   THEN DropFirst(lines[i], Len(m)) ELSE lines[i]]
    IN JoinWith(cut, <<"\n">>)

----------------------------------------------------------------------------
(* The fenced-block grammar *)

\* c{3,}
FenceRun(c) == Cat(<<Chr({c}), Chr({c}), Chr({c}), Star(Chr({c}))>>)

OptionPair ==
    Cat(<<KeyName, Opt(QuotedValue(LazyStar(AnyChr))), Star(Chr(Blank))>>)

BraceHeader ==
    Cat(<<Chr({"{"}), Group("attrs", Star(NotChr({"}", "\n"}))), Chr({"}"})>>)

BareHeader ==
    Cat(<<Opt(Cat(<<Opt(Chr({"."})), Group("lang", Star(Chr(LangChar))),
                    Star(Chr({" "}))>>)),
          Group("options", Star(Alt(OptionPair, Empty)))>>)

\* a closing fence that may be followed by spaces and tabs
ClosingFenceBlanks ==
    Cat(<<Behind({"\n"}), BackRef("fence"), Star(Chr(Blank)), Eol>>)

ClosingFence == Cat(<<Behind({"\n"}), BackRef("fence"), Star(Chr({" "})), Eol>>)

FENCED_BLOCK_RE ==
    Group("raw",
        Cat(<<Group("fence", Cat(<<Bol, Alt(FenceRun("~"), FenceRun(Tick))>>)),
              Star(Chr({" "})),
              Alt(BraceHeader, BareHeader),
              Chr({"\n"}),
              Group("code", LazyStar(AnyChr)),
              ClosingFence>>))

\* the one member of a set of one value (a value is computed once and named)
The(S) == CHOOSE x \in S : TRUE

\* pattern.search(s, p): the leftmost match starting at or after position p
SearchFrom(re, s, p) ==
    LET found == {m \in {MatchAt(re, s, q) : q \in p..(Len(s) + 1)} : m.ok}
    IN IF found = {} THEN NoMatch
       ELSE CHOOSE m \in found : \A n \in found : m.from <= n.from

\* the groups of one match that from_re_groups reads: groups[0], [1], [4], [6],
\* [7] and [9]; findall reports a group that took no part as the empty string
Groups(m, s) ==
    [raw |-> GroupText(m, s, "raw"), fence |-> GroupText(m, s, "fence"),
     attrs |-> GroupText(m, s, "attrs"), lang |-> GroupText(m, s, "lang"),
     options |-> GroupText(m, s, "options"), code |-> GroupText(m, s, "code")]

\* the language the first attribute gives: its name when its type is class
FirstClass(a) ==
    IF a # <<>> /\ a[1].val.type = "class" THEN Some(a[1].name) ELSE None

from_re_groups(g) ==
    The({[fence |-> g.fence,
          lang |-> IF g.lang # <<>> THEN Some(g.lang) ELSE FirstClass(a),
          attrs |-> a,
          options |-> options_from_str(g.options),
          contents |-> dedent(g.code),
          raw |-> g.raw] : a \in {attrs_from_str(g.attrs)}})

RECURSIVE FindAll(_, _, _)
\* FENCED_BLOCK_RE.findall(source), resumed at position p
FindAll(re, s, p) ==
    The({IF ~m.ok THEN <<>>
         ELSE <<Groups(m, s)>> \o
              FindAll(re, s, IF m.end > m.caps["raw"].from THEN m.end ELSE m.end + 1)
         : m \in {SearchFrom(re, s, p)}})

grab_fences(s) ==
    The({[i \in 1..Len(all) |-> from_re_groups(all[i])]
         : all \in {FindAll(FENCED_BLOCK_RE, s, 1)}})

----------------------------------------------------------------------------
(* Bounds and inputs *)

\* header inputs: at most MaxTokens pieces from HeaderPieces
MaxTokens == 3
\* documents of the closing-fence check: at most MaxLines lines from DocLines
MaxLines == 4
\* headers of the language check: at most MaxLangTokens pieces
MaxLangTokens == 2

RECURSIVE Concat(_)
\* the concatenation of a sequence of texts
Concat(parts) == IF parts = <<>> THEN <<>> ELSE Head(parts) \o Concat(Tail(parts))

\* every concatenation of at most n members of pieces
Texts(pieces, n) ==
    UNION {{Concat(f) : f \in [1..k -> pieces]} : k \in 0..n}

HeaderPieces ==
    {<<".", "a">>, <<"#", "a">>, <<"#", "b">>, <<"b">>,
     <<"k", "=", "\"", "v", "\"">>, <<"=", "'">>, <<"\"">>,
     <<" ">>, <<"\t">>, <<"-">>}

\* the header of the attribute example: .a #b key="v"
ExampleHeader ==
    <<".", "a", " ", "#", "b", " ", "k", "e", "y", "=", "\"", "v", "\"">>

Headers == Texts(HeaderPieces, MaxTokens) \cup {ExampleHeader}

Unused == <<>>
AttrsIdle == header = Unused /\ raw = Unused /\ attrs = Unused /\ toks = Unused
FenceIdle == source = Unused /\ pos = 0 /\ fences = Unused /\ spans = Unused
DriverIdle ==
    /\ executors = Unused /\ default_globals = {}
    /\ files = Unused /\ loadpc = 0 /\ nregs = 0
    /\ call = Unused /\ log = Unused /\ result = Unused

----------------------------------------------------------------------------
(* Fence.attrs_from_str, one loop iteration at a time *)

InitAttrs ==
    /\ mode = "attrs" /\ pc = "loop"
    /\ header \in Headers
    /\ raw = header /\ attrs = <<>> /\ toks = <<>>
    /\ FenceIdle /\ DriverIdle

\* an iteration in which a production matched
AttrsAccept ==
    /\ mode = "attrs" /\ pc = "loop" /\ raw # <<>>
    /\ \E t \in {AttrsToken(raw)} :
          /\ t.ok
          /\ attrs' = OrdSet(attrs, t.name, t.attr)
          /\ raw' = DropFirst(raw, t.end)
          /\ toks' = Append(toks, [name |-> t.name, attr |-> t.attr,
                                   at |-> raw, len |-> t.end])
    /\ UNCHANGED <<mode, pc, header, fenceVars, driverVars>>

\* the branch of the if / elif chain that is taken
AttrsClass == AttrsToken(raw).attr.type = "class" /\ AttrsAccept
AttrsId == AttrsToken(raw).attr.type = "id" /\ AttrsAccept
AttrsKeyVal == AttrsToken(raw).attr.type = "keyval" /\ AttrsAccept

\* no production matches: break
AttrsBreak ==
    /\ mode = "attrs" /\ pc = "loop" /\ raw # <<>>
    /\ ~AttrsToken(raw).ok
    /\ pc' = "done"
    /\ UNCHANGED <<mode, attrsVars, fenceVars, driverVars>>

\* the rest is empty: the while condition fails
AttrsExhausted ==
    /\ mode = "attrs" /\ pc = "loop" /\ raw = <<>>
    /\ pc' = "done"
    /\ UNCHANGED <<mode, attrsVars, fenceVars, driverVars>>

NextAttrs == AttrsClass \/ AttrsId \/ AttrsKeyVal \/ AttrsBreak \/ AttrsExhausted

SpecAttrs == InitAttrs /\ [][NextAttrs]_vars

\* the text a token took from the header, without the blanks around it
TokenCore(t) ==
    LET text == SubSeq(t.at, 1, t.len)
        keep == {i \in 1..Len(text) : text[i] \notin Blank}
    IN IF keep = {} THEN <<>> ELSE SubSeq(text, SetMin(keep), SetMax(keep))

\* the token is a class token .name, an id token #name, or a key with or
\* without a quoted value, and its kind and value are those of its text
TokenShape(t) ==
    CASE t.attr.type = "class" ->
            TokenCore(t) = <<".">> \o t.name /\ ~t.attr.value.some
      [] t.attr.type = "id" ->
            TokenCore(t) = <<"#">> \o t.name /\ ~t.attr.value.some
      [] t.attr.type = "keyval" ->
            \/ TokenCore(t) = t.name /\ ~t.attr.value.some
            \/ /\ t.attr.value.some
               /\ \E q \in {"\"", "'"} :
                     TokenCore(t) = t.name \o <<"=", q>> \o t.attr.value.v \o <<q>>
      [] OTHER -> FALSE

\* a token of one of the three productions starts the text
StartsToken(r) ==
    /\ r # <<>>
    /\ \/ r[1] \in Letter
       \/ r[1] \in {".", "#"} /\ Len(r) >= 2 /\ r[2] \in Letter

SkipBlanks(r) ==
    LET rest == {i \in 1..Len(r) : r[i] \notin Blank}
    IN IF rest = {} THEN <<>> ELSE SubSeq(r, SetMin(rest), Len(r))

TokensOf(k) == {j \in 1..Len(toks) : toks[j].name = k}

AttrsExample ==
    <<[name |-> <<"a">>, val |-> Attr(None, "class")],
      [name |-> <<"b">>, val |-> Attr(None, "id")],
      [name |-> <<"k", "e", "y">>, val |-> Attr(Some(<<"v">>), "keyval")]>>

AttrsSafety ==
    mode = "attrs" =>
      \* the header is consumed left to right, token after token
      /\ \A i \in 1..Len(toks) :
            /\ toks[i].at = IF i = 1 THEN header
                            ELSE DropFirst(toks[i - 1].at, toks[i - 1].len)
            /\ toks[i].len \in 1..Len(toks[i].at)
            /\ TokenShape(toks[i])
      /\ raw = IF toks = <<>> THEN header
               ELSE DropFirst(toks[Len(toks)].at, toks[Len(toks)].len)
      /\ Len(toks) + Len(raw) <= Len(header)
      \* the entries: one for each name, in order of first appearance, with
      \* the kind and value of the last token of that name
      /\ \A j \in 1..Len(toks) : \E i \in 1..Len(attrs) : attrs[i].name = toks[j].name
      /\ \A i \in 1..Len(attrs) :
            /\ TokensOf(attrs[i].name) # {}
            /\ attrs[i].val = toks[SetMax(TokensOf(attrs[i].name))].attr
            /\ \A h \in 1..(i - 1) :
                  SetMin(TokensOf(attrs[h].name)) < SetMin(TokensOf(attrs[i].name))
      \* it stops only where no token starts, and the rest is dropped
      /\ pc = "done" =>
            /\ ~StartsToken(SkipBlanks(raw))
            /\ attrs = attrs_from_str(header)
            /\ header = ExampleHeader => attrs = AttrsExample
      /\ pc = "loop" /\ raw # <<>> /\ ~StartsToken(SkipBlanks(raw)) =>
            ~AttrsToken(raw).ok

\* an iteration either shortens the rest or is the last one, so the loop ends
\* within Len(header) + 1 iterations
AttrsProgress ==
    \/ Len(raw') < Len(raw) /\ pc' = "loop"
    \/ raw' = raw /\ pc = "loop" /\ pc' = "done"

\* C9: attrs_from_str consumes the header left to right, one class, id or
\* key/value token at a time with the blanks around it; the mapping it
\* returns has one entry for each name, in order of first appearance, with the
\* kind of the token that matched, and a repeated name overwrites its entry in
\* place; .a #b key="v" gives [a:class, b:id, key:keyval("v")]; it stops without
\* error where no token starts and drops the rest; and the loop terminates.
C9_AttrsFromStr == [](AttrsSafety) /\ [][AttrsProgress]_vars

\* a repeated name has overwritten the first entry, which stayed first, and a
\* rest of the header was dropped
C9_Witness ==
    /\ mode = "attrs" /\ pc = "done"
    /\ Len(attrs) >= 2 /\ Len(toks) > Len(attrs)
    /\ attrs[1].name = toks[Len(toks)].name
    /\ attrs[1].val.type # toks[1].attr.type

----------------------------------------------------------------------------
(* grab_fences, one match of findall at a time *)

Line(t) == t \o <<"\n">>

\* lines of the closing-fence check: fences of both characters and several
\* lengths, with a trailing space or tab, and a line of text
DocLines ==
    {Line(<<Tick, Tick, Tick>>), Line(<<Tick, Tick, Tick, Tick>>),
     Line(<<"~", "~", "~">>), Line(<<Tick, Tick, Tick, " ">>),
     Line(<<Tick, Tick, Tick, "\t">>), Line(<<"x">>)}

\* documents in which a quoted option value runs over a line break, a fence
\* is indented, and the last line has no line break
ExtraDocs ==
    {Concat(<<Line(<<Tick, Tick, Tick, "a", "=", "\"">>), Line(<<Tick, Tick, Tick>>),
              Line(<<"\"">>), Line(<<"x">>), Line(<<Tick, Tick, Tick>>)>>),
     Concat(<<Line(<<Tick, Tick, Tick>>), Line(<<" ", Tick, Tick, Tick>>),
              <<Tick, Tick, Tick>>>>),
     Concat(<<Line(<<Tick, Tick, Tick, Tick>>), Line(<<Tick, Tick, Tick>>),
              Line(<<Tick, Tick, Tick, Tick, Tick>>), Line(<<"~", "~", "~", "~">>),
              Line(<<Tick, Tick, Tick, Tick, " ", " ">>)>>)}

ClosingDocs == Texts(DocLines, MaxLines) \cup ExtraDocs

\* documents of the language check: one fence with a header in braces or bare
LangDoc(h) ==
    Concat(<<Line(<<Tick, Tick, Tick>> \o h), Line(<<"x">>), Line(<<Tick, Tick, Tick>>)>>)
LangHeaders ==
    LET hs == Texts(HeaderPieces, MaxLangTokens) \cup {ExampleHeader}
    IN {<<"{">> \o h \o <<"}">> : h \in hs}
       \cup hs
       \cup {<<"p", "y", " ">> \o h : h \in hs}
LangDocs == {LangDoc(h) : h \in LangHeaders}

InitFence(docs) ==
    /\ mode = "fence" /\ pc = "scan"
    /\ source \in docs
    /\ pos = 1 /\ fences = <<>> /\ spans = <<>>
    /\ AttrsIdle /\ DriverIdle

\* findall finds the next match and the comprehension builds its Fence
FindFence ==
    /\ mode = "fence" /\ pc = "scan"
    /\ \E m \in {SearchFrom(FENCED_BLOCK_RE, source, pos)} :
          /\ m.ok
          /\ fences' = Append(fences, from_re_groups(Groups(m, source)))
          /\ spans' = Append(spans, [from |-> m.caps["raw"].from, to |-> m.end,
                                     code |-> m.caps["code"].from,
                                     groups |-> Groups(m, source)])
          /\ pos' = IF m.end > m.caps["raw"].from THEN m.end ELSE m.end + 1
    /\ UNCHANGED <<mode, pc, source, attrsVars, driverVars>>

\* no further match: grab_fences returns
ScanEnd ==
    /\ mode = "fence" /\ pc = "scan"
    /\ ~SearchFrom(FENCED_BLOCK_RE, source, pos).ok
    /\ pc' = "done"
    /\ UNCHANGED <<mode, fenceVars, attrsVars, driverVars>>

NextFence == FindFence \/ ScanEnd

SpecClosing == InitFence(ClosingDocs) /\ [][NextFence]_vars
SpecLang == InitFence(LangDocs) /\ [][NextFence]_vars

\* the lines of a text: where a line starts, where it ends, what it holds
LineStarts(s) == {q \in 1..Len(s) : q = 1 \/ s[q - 1] = "\n"}
LineEnd(s, q) == SetMin({e \in q..(Len(s) + 1) : e = Len(s) + 1 \/ s[e] = "\n"})
LineText(s, q) == SubSeq(s, q, LineEnd(s, q) - 1)
LineStartOf(s, e) == SetMax({q \in 1..e : q = 1 \/ s[q - 1] = "\n"})

\* the line is the fence itself, followed by spaces only
ClosesExactly(line, fence) ==
    /\ IsPrefix(fence, line)
    /\ \A i \in (Len(fence) + 1)..Len(line) : line[i] = " "

\* the line is at least as many of the fence character, followed by
\* whitespace only
ClosesAtLeast(line, fence) ==
    \E m \in Len(fence)..Len(line) :
        /\ \A i \in 1..m : line[i] = fence[1]
        /\ \A i \in (m + 1)..Len(line) : line[i] \in Blank

\* the run of three or more fence characters a line starts with, <<>> if none
OpeningRun(line) ==
    LET n == SetMax({k \in 0..Len(line) : \A i \in 1..k : line[i] = line[1]})
    IN IF n >= 3 /\ line[1] \in {Tick, "~"} THEN SubSeq(line, 1, n) ELSE <<>>

\* the matches found so far do not cover position q
Outside(q) == \A i \in 1..Len(spans) : q < spans[i].from \/ q > spans[i].to

\* block i: its opener is a whole run at the start of a line, and it is closed
\* by the first line, from the end of its header on, that Closes(line, fence)
BlockClosedBy(i, Closes(_, _)) ==
    LET sp == spans[i]
        fence == fences[i].fence
        c == LineStartOf(source, sp.to)
    IN /\ sp.from \in LineStarts(source)
       /\ fence = OpeningRun(LineText(source, sp.from))
       /\ sp.code > sp.from /\ source[sp.code - 1] = "\n"
       /\ c >= sp.code
       /\ sp.to = LineEnd(source, c)
       /\ Closes(LineText(source, c), fence)
       /\ \A l \in LineStarts(source) :
             sp.code <= l /\ l < c => ~Closes(LineText(source, l), fence)
       /\ fences[i].raw = SubSeq(source, sp.from, sp.to - 1)
       /\ sp.groups.code = SubSeq(source, sp.code, c - 1)

\* when the scan is over, no line that is only an opening fence and has a
\* line after it that Closes is left outside the blocks
NoneMissed(Closes(_, _)) ==
    pc = "done" =>
       \A l \in LineStarts(source) :
          LET fence == OpeningRun(LineText(source, l))
          IN fence # <<>> /\ fence = LineText(source, l) /\ Outside(l) =>
                \A l2 \in LineStarts(source) :
                    l2 > l => ~Closes(LineText(source, l2), fence)

\* C7 as stated: an opening fence of n >= 3 fence characters at the start of a
\* line is closed by the first later line of m >= n of the same character
\* followed only by whitespace; shorter runs and runs of the other character
\* stay in the body.
C7_ClosedByAtLeast ==
    mode = "fence" =>
       /\ \A i \in 1..Len(spans) : BlockClosedBy(i, ClosesAtLeast)
       /\ NoneMissed(ClosesAtLeast)

\* C7: an opening fence of n >= 3 fence characters at the start of a line is
\* closed by the first line, after its header, that is exactly those n
\* characters followed only by spaces; a longer or shorter run, a run of the
\* other character and a fence followed by a tab stay in the body.
C7_ClosedByExactly ==
    mode = "fence" =>
       /\ \A i \in 1..Len(spans) : BlockClosedBy(i, ClosesExactly)
       /\ NoneMissed(ClosesExactly)

\* a block whose body holds a line the block would end at if a longer run or
\* a trailing tab could close it
C7_Witness ==
    /\ mode = "fence"
    /\ \E i \in 1..Len(spans) :
          \E l \in LineStarts(source) :
             /\ spans[i].code <= l /\ l < LineStartOf(source, spans[i].to)
             /\ ClosesAtLeast(LineText(source, l), fences[i].fence)

\* the first attribute written in the braces
FirstToken(h) == AttrsToken(h)

\* C8: the language of a fence is the bare language word when there is one;
\* otherwise the name of the first attribute in the braces when that attribute
\* is a class; otherwise null: a class attribute that is not the first
\* attribute never becomes the language.
C8_LanguageResolution ==
    mode = "fence" =>
       \A i \in 1..Len(fences) :
          LET g == spans[i].groups
              first == FirstToken(g.attrs)
          IN fences[i].lang =
                IF g.lang # <<>> THEN Some(g.lang)
                ELSE IF first.ok /\ first.attr.type = "class" THEN Some(first.name)
                ELSE None

----------------------------------------------------------------------------
(* What the executors run: Python's exec and the shell *)

\* s.strip()
Strip(s) ==
    LET keep == {i \in 1..Len(s) : s[i] \notin White}
    IN IF keep = {} THEN <<>> ELSE SubSeq(s, SetMin(keep), SetMax(keep))

\* s.splitlines(): the lines without their line breaks, no empty last line
SplitLines(s) ==
    IF s = <<>> THEN <<>>
    ELSE LET parts == SplitOn(s, "\n")
         IN IF parts[Len(parts)] = <<>> THEN SubSeq(parts, 1, Len(parts) - 1)
            ELSE parts

RECURSIVE SplitOnText(_, _)
\* s.split(sep) for a separator of several characters
SplitOnText(s, sep) ==
    LET hits == {i \in 1..Len(s) : OccursAt(s, i, sep)}
    IN IF hits = {} THEN <<s>>
       ELSE LET i == SetMin(hits)
            IN <<SubSeq(s, 1, i - 1)>> \o
               SplitOnText(SubSeq(s, i + Len(sep), Len(s)), sep)

\* The statements of the fences of the model: an assignment like x=1, a name
\* like x, the division 1/0 and the empty line.  Anything else does not
\* compile, and then exec runs nothing.
IsAssign(l) == Len(l) = 3 /\ l[1] \in Letter /\ l[2] = "=" /\ l[3] \in Digit
IsName(l) == l # <<>> /\ \A i \in 1..Len(l) : l[i] \in Letter
IsDivZero(l) == l = <<"1", "/", "0">>
Compiles(code) ==
    \A l \in {SplitOn(code, "\n")[i] : i \in 1..Len(SplitOn(code, "\n"))} :
        l = <<>> \/ IsAssign(l) \/ IsName(l) \/ IsDivZero(l)

RECURSIVE PyRun(_, _, _)
PyRun(lines, i, ns) ==
    IF i > Len(lines) THEN [err |-> "ok", ns |-> ns]
    ELSE LET l == lines[i]
         IN IF IsAssign(l) THEN PyRun(lines, i + 1, ns \cup {<<l[1]>>})
            ELSE IF IsName(l) /\ l \notin ns THEN [err |-> "NameError", ns |-> ns]
            ELSE IF IsDivZero(l) THEN [err |-> "ZeroDivisionError", ns |-> ns]
            ELSE PyRun(lines, i + 1, ns)

\* exec(code, ns): the names of ns after it, and the exception it raised
exec(code, ns) ==
    IF ~Compiles(code) THEN [err |-> "SyntaxError", ns |-> ns]
    ELSE PyRun(SplitOn(code, "\n"), 1, ns)

Echo1 == <<"e", "c", "h", "o", " ", "1">>
\* sh -c cmd for the commands of the model: exit status and standard output
Shell(cmd) ==
    IF cmd = Echo1 THEN [status |-> 0, stdout |-> <<"1", "\n">>]
    ELSE IF cmd = <<>> \/ IsAssign(cmd) THEN [status |-> 0, stdout |-> <<>>]
    ELSE IF cmd = <<"f", "a", "l", "s", "e">> THEN [status |-> 1, stdout |-> <<>>]
    ELSE [status |-> 127, stdout |-> <<>>]

RECURSIVE ScriptStatus(_, _)
\* bash -e -u -c script: the commands line by line, stopping at the first
\* that fails
ScriptStatus(lines, i) ==
    IF i > Len(lines) THEN 0
    ELSE IF Shell(lines[i]).status # 0 THEN Shell(lines[i]).status
    ELSE ScriptStatus(lines, i + 1)

----------------------------------------------------------------------------
(* The executors.  Each gives: err, the exception raised or "ok"; globals, *)
(* the default namespace of exec_python_fence afterwards; files; printed,  *)
(* whether the contents were printed; seen, the names the code could read  *)
(* when it started; ran, the commands run.                                 *)

Title == <<"t", "i", "t", "l", "e">>
Truthy(o) == o.some /\ o.v # <<>>

Outcome(err, g, fs, printed, seen, ran) ==
    [err |-> err, globals |-> g, files |-> fs, printed |-> printed,
     seen |-> seen, ran |-> ran]

\* an attribute of the argument is read and the argument is a str
NotAFence(g, fs) == Outcome("AttributeError", g, fs, FALSE, {}, 0)

exec_bash(arg, g, fs) ==
    IF arg.kind # "Fence" THEN NotAFence(g, fs)
    ELSE LET status == ScriptStatus(SplitLines(arg.fence.contents), 1)
         IN IF status = 0 THEN Outcome("ok", g, fs, FALSE, {}, 1)
            ELSE Outcome("CalledProcessError", g, fs, TRUE, {}, 1)

exec_python(arg, g, fs) ==
    IF arg.kind # "Fence" THEN NotAFence(g, fs)
    ELSE LET fresh == {<<"__MODULE__">>}
             r == exec(arg.fence.contents, fresh)
         IN Outcome(r.err, g, fs, r.err # "ok", fresh, 0)

exec_file_fence(arg, g, fs) ==
    IF arg.kind # "Fence" THEN NotAFence(g, fs)
    ELSE LET fence == arg.fence
             opt == IF Has(fence.options, Title) THEN Get(fence.options, Title)
                    ELSE None
             fname == IF Truthy(opt) THEN opt
                      ELSE IF Has(fence.attrs, Title)
                           THEN Get(fence.attrs, Title).value ELSE None
         IN IF ~fname.some THEN Outcome("TypeError", g, fs, FALSE, {}, 0)
            ELSE IF fname.v = <<>>
                 THEN Outcome("FileNotFoundError", g, fs, FALSE, {}, 0)
            ELSE Outcome("ok", g, OrdSet(fs, fname.v, fence.contents), FALSE, {}, 0)

\* called with the fence alone, exec_python_fence runs it in the one dict
\* that is the default of its parameter globals
exec_python_fence(arg, g, fs) ==
    IF arg.kind # "Fence" THEN NotAFence(g, fs)
    ELSE LET fence == arg.fence
             titled == (Has(fence.options, Title) /\ Truthy(Get(fence.options, Title)))
                       \/ Has(fence.attrs, Title)
             w == IF titled THEN exec_file_fence(arg, g, fs)
                  ELSE Outcome("ok", g, fs, FALSE, {}, 0)
             r == exec(fence.contents, g)
         IN IF w.err # "ok" THEN w
            ELSE Outcome(r.err, r.ns, w.files, r.err # "ok", g, 0)

\* the (command, expected output) pairs of a fence
Commands(contents) ==
    LET cmds == SelectSeq(SplitOnText(contents, <<"$", " ">>), LAMBDA c : c # <<>>)
    IN [i \in 1..Len(cmds) |->
           LET lines == SplitLines(cmds[i])
           IN [input |-> lines[1],
               output |-> JoinWith(Tail(lines), <<"\n">>)]]

\* a comparison without strip()
SameOutputUntrimmed(stdout, expected) == stdout = expected

\* does the captured output equal the expected one?
SameOutput(stdout, expected) == Strip(stdout) = Strip(expected)

RECURSIVE RunCommands(_, _)
\* the second loop of exec_bash_fence: the error raised and the commands run
RunCommands(commands, i) ==
    IF i > Len(commands) THEN [err |-> "ok", ran |-> i - 1]
    ELSE LET res == Shell(commands[i].input)
         IN IF res.status # 0 THEN [err |-> "CalledProcessError", ran |-> i]
            ELSE IF ~SameOutput(res.stdout, commands[i].output)
                 THEN [err |-> "AssertionError", ran |-> i]
            ELSE RunCommands(commands, i + 1)

exec_bash_fence(arg, g, fs) ==
    IF arg.kind # "Fence" THEN NotAFence(g, fs)
    ELSE LET r == RunCommands(Commands(arg.fence.contents), 1)
         IN Outcome(r.err, g, fs, FALSE, {}, r.ran)

\* executor(arg)
Invoke(executor, arg, g, fs) ==
    CASE executor = "exec_bash" -> exec_bash(arg, g, fs)
      [] executor = "exec_python" -> exec_python(arg, g, fs)
      [] executor = "exec_file_fence" -> exec_file_fence(arg, g, fs)
      [] executor = "exec_python_fence" -> exec_python_fence(arg, g, fs)
      [] executor = "exec_bash_fence" -> exec_bash_fence(arg, g, fs)

----------------------------------------------------------------------------
(* The registry and the check functions *)

EmptyTag == <<>>
PythonTag == <<"p","y","t","h","o","n">>
PyTag == <<"p","y">>
BashTag == <<"b","a","s","h">>
YamlTag == <<"y","a","m","l">>
YmlTag == <<"y","m","l">>
TomlTag == <<"t","o","m","l">>
RustTag == <<"r","u","s","t">>

\* _executors[lang] = executor
register_executor(reg, lang, executor) == OrdSet(reg, lang, executor)

\* the top-level statements that touch the registry or create a default
\* argument, in source order
Program ==
    <<[op |-> "assign", lang |-> EmptyTag, executor |-> ""],
      [op |-> "register", lang |-> BashTag, executor |-> "exec_bash"],
      [op |-> "register", lang |-> EmptyTag, executor |-> "exec_python"],
      [op |-> "register", lang |-> PythonTag, executor |-> "exec_python"],
      [op |-> "assign", lang |-> EmptyTag, executor |-> ""],
      [op |-> "register", lang |-> YamlTag, executor |-> "exec_file_fence"],
      [op |-> "register", lang |-> YmlTag, executor |-> "exec_file_fence"],
      [op |-> "register", lang |-> TomlTag, executor |-> "exec_file_fence"],
      [op |-> "def", lang |-> EmptyTag, executor |-> "exec_python_fence"],
      [op |-> "register", lang |-> PythonTag, executor |-> "exec_python_fence"],
      [op |-> "register", lang |-> PyTag, executor |-> "exec_python_fence"],
      [op |-> "register", lang |-> BashTag, executor |-> "exec_bash_fence"]>>

\* at most MaxBlocks fences in a checked document
MaxBlocks == 2
\* at most MaxRegs calls of register_executor after the module has loaded
MaxRegs == 1

\* the fences the checked documents are made of
DriverBlocks ==
    {<<Tick,Tick,Tick,"p","y","t","h","o","n","\n","x","=","1","\n",Tick,Tick,Tick,"\n">>,
     <<Tick,Tick,Tick,"\n","x","\n",Tick,Tick,Tick,"\n">>,
     <<"~","~","~","b","a","s","h","\n","$"," ","e","c","h","o"," ","1","\n","1","\n","~","~","~","\n">>,
     <<Tick,Tick,Tick,"\n","$"," ","e","c","h","o"," ","1","\n","2","\n",Tick,Tick,Tick,"\n">>,
     <<Tick,Tick,Tick,"y","a","m","l"," ","t","i","t","l","e","=","\"","f","\"","\n","x","=","1","\n",Tick,Tick,Tick,"\n">>,
     <<Tick,Tick,Tick,"\n","1","/","0","\n",Tick,Tick,Tick,"\n">>}

DriverDocs == Texts(DriverBlocks, MaxBlocks)
CallTags == {EmptyTag, PythonTag, BashTag, YamlTag, RustTag}
UserTags == {EmptyTag, RustTag}
UserExecutors == {"exec_python", "exec_bash"}

\* grab_fences of every document, computed once
FencesOf == [d \in DriverDocs |-> grab_fences(d)]

\* only the fences whose language is lang
grab_code_blocks_of_lang(docstring, lang) ==
    SelectSeq(FencesOf[docstring], LAMBDA f : f.lang = Some(lang))

\* the definition of line 310, which is the one in effect after the load
grab_code_blocks(docstring, lang) == FencesOf[docstring]

\* no check of the tag
SupportedUnchecked(lang, reg) == TRUE

\* lang in _executors
Supported(lang, reg) == Has(reg, lang)

FenceArg(f) == [kind |-> "Fence", fence |-> f, blocks |-> 1]
StrArg(n) == [kind |-> "str", fence |-> <<>>, blocks |-> n]

LogEntry(i, executor, arg, o) ==
    [block |-> i, executor |-> executor, arg |-> arg.kind, on |-> arg.fence,
     err |-> o.err, printed |-> o.printed, seen |-> o.seen, ran |-> o.ran]

Returned(res, lg, grabbed, g, fs) ==
    [result |-> res, log |-> lg, grabbed |-> grabbed, globals |-> g, files |-> fs]

\* raise LookupError(f"{lang} is not a supported language ... register_executor")
LookupError(lang) == [type |-> "LookupError", tag |-> lang, hint |-> TRUE]
Raised(type) == [type |-> type, tag |-> <<>>, hint |-> FALSE]
Ok == [type |-> "ok", tag |-> <<>>, hint |-> FALSE]

RECURSIVE RunEachToTheEnd(_, _, _, _, _, _)
\* a loop that goes on after a failure and raises the first one at the end
RunEachToTheEnd(executor, blocks, i, g, fs, lg) ==
    IF i > Len(blocks)
    THEN LET failed == {j \in 1..Len(lg) : lg[j].err # "ok"}
         IN Returned(IF failed = {} THEN Ok ELSE Raised(lg[SetMin(failed)].err),
                     lg, TRUE, g, fs)
    ELSE LET o == Invoke(executor, FenceArg(blocks[i]), g, fs)
         IN RunEachToTheEnd(executor, blocks, i + 1, o.globals, o.files,
                            Append(lg, LogEntry(i, executor, FenceArg(blocks[i]), o)))

RECURSIVE RunEach(_, _, _, _, _, _)
\* for b in blocks: executor(b)
RunEach(executor, blocks, i, g, fs, lg) ==
    IF i > Len(blocks) THEN Returned(Ok, lg, TRUE, g, fs)
    ELSE LET o == Invoke(executor, FenceArg(blocks[i]), g, fs)
             lg2 == Append(lg, LogEntry(i, executor, FenceArg(blocks[i]), o))
         IN IF o.err # "ok" THEN Returned(Raised(o.err), lg2, TRUE, o.globals, o.files)
            ELSE RunEach(executor, blocks, i + 1, o.globals, o.files, lg2)

check_docstring(doc, lang, reg, g, fs) ==
    IF ~Supported(lang, reg) THEN Returned(LookupError(lang), <<>>, FALSE, g, fs)
    ELSE IF ~Has(reg, lang) THEN Returned(Raised("KeyError"), <<>>, FALSE, g, fs)
    ELSE RunEach(Get(reg, lang), grab_code_blocks(doc, lang), 1, g, fs, <<>>)

check_raw_string(raw_, lang, reg, g, fs) ==
    IF ~Supported(lang, reg) THEN Returned(LookupError(lang), <<>>, FALSE, g, fs)
    ELSE IF ~Has(reg, lang) THEN Returned(Raised("KeyError"), <<>>, FALSE, g, fs)
    ELSE RunEach(Get(reg, lang), grab_code_blocks(raw_, lang), 1, g, fs, <<>>)

\* all_code is a str built from the blocks, and the executor is called on it
check_raw_file_full(raw_, lang, reg, g, fs) ==
    IF ~Supported(lang, reg) THEN Returned(LookupError(lang), <<>>, FALSE, g, fs)
    ELSE IF ~Has(reg, lang) THEN Returned(Raised("KeyError"), <<>>, FALSE, g, fs)
    ELSE LET executor == Get(reg, lang)
             all_code == StrArg(Len(grab_code_blocks(raw_, lang)))
             o == Invoke(executor, all_code, g, fs)
         IN Returned(IF o.err = "ok" THEN Ok ELSE Raised(o.err),
                     <<LogEntry(1, executor, all_code, o)>>, TRUE,
                     o.globals, o.files)

check_md_file(text, memory, lang, reg, g, fs) ==
    IF ~memory THEN check_raw_string(text, lang, reg, g, fs)
    ELSE check_raw_file_full(text, lang, reg, g, fs)

----------------------------------------------------------------------------
(* The module load, statement by statement, and then the calls *)

Init ==
    /\ mode = "driver" /\ pc = "load" /\ loadpc = 1
    /\ executors = <<>> /\ default_globals = {} /\ files = <<>>
    /\ nregs = 0 /\ call = Unused /\ log = Unused /\ result = Unused
    /\ AttrsIdle /\ FenceIdle

Loading(op) ==
    /\ mode = "driver" /\ pc = "load" /\ loadpc <= Len(Program)
    /\ Program[loadpc].op = op
    /\ loadpc' = loadpc + 1

\* _executors = {}
LoadAssign ==
    /\ Loading("assign")
    /\ executors' = <<>>
    /\ UNCHANGED <<mode, pc, default_globals, files, nregs, call, log, result,
                   attrsVars, fenceVars>>

\* register_executor(lang, executor) at the top level
LoadRegister ==
    /\ Loading("register")
    /\ executors' = register_executor(executors, Program[loadpc].lang,
                                      Program[loadpc].executor)
    /\ UNCHANGED <<mode, pc, default_globals, files, nregs, call, log, result,
                   attrsVars, fenceVars>>

\* def exec_python_fence(fence, globals={}): the default dict is created
LoadDef ==
    /\ Loading("def")
    /\ default_globals' = {}
    /\ UNCHANGED <<mode, pc, executors, files, nregs, call, log, result,
                   attrsVars, fenceVars>>

\* the last statement has run
Loaded ==
    /\ mode = "driver" /\ pc = "load" /\ loadpc > Len(Program)
    /\ pc' = "idle"
    /\ UNCHANGED <<mode, executors, default_globals, files, loadpc, nregs, call,
                   log, result, attrsVars, fenceVars>>

\* a caller registers an executor of its own
RegisterExecutor ==
    /\ mode = "driver" /\ pc = "idle" /\ nregs < MaxRegs
    /\ \E lang \in UserTags, executor \in UserExecutors :
          executors' = register_executor(executors, lang, executor)
    /\ nregs' = nregs + 1
    /\ UNCHANGED <<mode, pc, default_globals, files, loadpc, call, log, result,
                   attrsVars, fenceVars>>

\* a call runs to its return or to the exception that leaves it
Finish(entry, text, lang, memory, r) ==
    /\ call' = [entry |-> entry, text |-> text, lang |-> lang, memory |-> memory,
                globals |-> default_globals, files |-> files]
    /\ log' = r.log
    /\ result' = [type |-> r.result.type, tag |-> r.result.tag,
                  hint |-> r.result.hint, grabbed |-> r.grabbed]
    /\ default_globals' = r.globals
    /\ files' = r.files
    /\ pc' = "returned"
    /\ UNCHANGED <<mode, executors, loadpc, nregs, attrsVars, fenceVars>>

CheckDocstring ==
    /\ mode = "driver" /\ pc = "idle"
    /\ \E text \in DriverDocs, lang \in CallTags :
          \E r \in {check_docstring(text, lang, executors, default_globals, files)} :
              Finish("check_docstring", text, lang, FALSE, r)

CheckRawString ==
    /\ mode = "driver" /\ pc = "idle"
    /\ \E text \in DriverDocs, lang \in CallTags :
          \E r \in {check_raw_string(text, lang, executors, default_globals, files)} :
              Finish("check_raw_string", text, lang, FALSE, r)

CheckRawFileFull ==
    /\ mode = "driver" /\ pc = "idle"
    /\ \E text \in DriverDocs, lang \in CallTags :
          \E r \in {check_raw_file_full(text, lang, executors, default_globals, files)} :
              Finish("check_raw_file_full", text, lang, TRUE, r)

CheckMdFile ==
    /\ mode = "driver" /\ pc = "idle"
    /\ \E text \in DriverDocs, lang \in CallTags, memory \in BOOLEAN :
          \E r \in {check_md_file(text, memory, lang, executors, default_globals,
                                  files)} :
              Finish("check_md_file", text, lang, memory, r)

\* the caller goes on after the call
Return ==
    /\ mode = "driver" /\ pc = "returned"
    /\ pc' = "idle"
    /\ call' = Unused /\ log' = Unused /\ result' = Unused
    /\ UNCHANGED <<mode, executors, default_globals, files, loadpc, nregs,
                   attrsVars, fenceVars>>

Next ==
    \/ LoadAssign \/ LoadRegister \/ LoadDef \/ Loaded
    \/ RegisterExecutor
    \/ CheckDocstring \/ CheckRawString \/ CheckRawFileFull \/ CheckMdFile
    \/ Return

Spec == Init /\ [][Next]_vars

----------------------------------------------------------------------------
(* The calls, seen when they return *)

AtReturn == mode = "driver" /\ pc = "returned"
Independent ==
    call.entry = "check_raw_string" \/ (call.entry = "check_md_file" /\ ~call.memory)
Cumulative ==
    call.entry = "check_raw_file_full" \/ (call.entry = "check_md_file" /\ call.memory)
\* check_docstring and check_raw_string
OneByOne == call.entry \in {"check_docstring", "check_raw_string"}
Extracted == FencesOf[call.text]
BuiltinTags == {EmptyTag, PythonTag, PyTag, BashTag, YamlTag, YmlTag, TomlTag}

\* C1: with the executor of tag python, a fence of check_raw_string or of
\* check_md_file(memory=False) runs in a fresh namespace: it sees no name that
\* an earlier fence, of this call or of an earlier call, has defined.
C1_FreshNamespace ==
    AtReturn /\ Independent /\ call.lang = PythonTag =>
       \A i \in 1..Len(log) : log[i].seen \subseteq {<<"__MODULE__">>}

RECURSIVE RunsThreaded(_, _, _)
\* the fences run without error, one after the other in one namespace
RunsThreaded(blocks, i, ns) ==
    \/ i > Len(blocks)
    \/ /\ exec(blocks[i].contents, ns).err = "ok"
       /\ RunsThreaded(blocks, i + 1, exec(blocks[i].contents, ns).ns)

\* C2: check_raw_file_full and check_md_file(memory=True) pass every fence of
\* the document to the executor in order, with one namespace; a document of
\* two or more fences that run without error in one namespace is checked
\* without failure.
C2_SharedNamespace ==
    AtReturn /\ Cumulative /\ call.lang = PythonTag /\ Len(Extracted) >= 2
             /\ RunsThreaded(Extracted, 1, {}) =>
       /\ result.type = "ok"
       /\ Len(log) = Len(Extracted)
       /\ \A i \in 1..Len(log) : log[i].arg = "Fence" /\ log[i].on = Extracted[i]

\* C3: when the module has loaded, the registry has an entry for each of "",
\* python, py, bash, yaml, yml and toml, and "" has the executor of python.
C3_BuiltinTags ==
    mode = "driver" /\ pc = "idle" /\ nregs = 0 =>
       /\ \A tag \in BuiltinTags : Has(executors, tag)
       /\ Get(executors, EmptyTag) = Get(executors, PythonTag)

\* C4: a check called with a tag that is not a key of the registry raises the
\* LookupError that names the tag and gives the register_executor hint, before
\* any fence is extracted and any executor is invoked; with a tag that is a key
\* this error is not raised.
C4_UnsupportedLanguage ==
    AtReturn =>
       IF ~Has(executors, call.lang)
       THEN /\ result.type = "LookupError"
            /\ result.tag = call.lang /\ result.hint
            /\ ~result.grabbed /\ log = <<>>
            /\ default_globals = call.globals /\ files = call.files
       ELSE result.type # "LookupError" /\ result.grabbed

\* a call with the default tag "", which no statement of the load has left
\* registered, on a document that has fences
C4_Witness ==
    /\ AtReturn /\ call.lang = EmptyTag /\ Len(Extracted) >= 1
    /\ result.type = "LookupError"

\* C5: check_raw_string and check_docstring invoke the executor on the fences
\* f1, f2, ... of the document in that order, each at most once; the first
\* invocation that fails is the last one and its failure is what the caller
\* gets; if none fails, every fence is invoked once and the call returns.
C5_FailFast ==
    AtReturn /\ OneByOne /\ result.grabbed =>
       /\ Len(log) <= Len(Extracted)
       /\ \A i \in 1..Len(log) :
             /\ log[i].block = i /\ log[i].arg = "Fence" /\ log[i].on = Extracted[i]
             /\ i < Len(log) => log[i].err = "ok"
       /\ IF log # <<>> /\ log[Len(log)].err # "ok"
          THEN result.type = log[Len(log)].err
          ELSE Len(log) = Len(Extracted) /\ result.type = "ok"

\* the first of two fences fails and the second is not invoked
C5_Witness ==
    /\ AtReturn /\ OneByOne /\ result.grabbed
    /\ Len(Extracted) = 2 /\ Len(log) = 1 /\ result.type # "ok"

\* a call with tag bash that reached its fences one by one
BashCall == AtReturn /\ (OneByOne \/ Independent) /\ call.lang = BashTag

Failing(commands) ==
    {j \in 1..Len(commands) :
        \/ Shell(commands[j].input).status # 0
        \/ Strip(Shell(commands[j].input).stdout) # Strip(commands[j].output)}

============================================================================
